---- MODULE Spec2Model ----
(***************************************************************************)
(* Chirpy: the handlers of internal/api and the helpers of internal/auth  *)
(* they call, as a state machine.                                          *)
(*                                                                         *)
(* Spec        login, refresh and revoke of refresh tokens                 *)
(* SpecApp     registration and the handlers behind an access token        *)
(* SpecChirps  the chirp handlers alone                                    *)
(* SpecExtract GetBearerToken and GetAPIKey on header values               *)
(* SpecAuth    MakeJWT, ValidateJWT, HashPassword and CheckPasswordHash    *)
(* SpecSession one client: login, refresh, revoke, chirps with its token   *)
(* SpecLogin   as Spec, the clock moving on while a login stores its row   *)
(* SpecWebhook the Chirpy Red webhook                                      *)
(*                                                                         *)
(* Every HTTP request runs on a goroutine of its own (net/http), so the    *)
(* handlers are modelled as workers whose steps are the database calls:    *)
(* one action per database round trip, the local computation around it     *)
(* included.  Time is counted in half seconds; the server's clock advances *)
(* by whole hours, between requests.                                       *)
(***************************************************************************)
EXTENDS Integers, Sequences, FiniteSets, TLC

\* ------------------------------------------------------------------ bounds
NumWorkers  == 2      \* requests handled concurrently
MaxRequests == 3      \* requests started in one behaviour
MaxTicks    == 2      \* clock advances in one behaviour
MaxRestLen  == 2      \* characters after the scheme in a probed header
MaxCallTime == 4      \* latest time, in half seconds, of a token call

\* ------------------------------------------------------- program constants
Second     == 2                   \* time.Second, in units of the clock
Hour       == 3600 * Second       \* time.Hour
AccessTTL  == 3600 * Second       \* 3600*time.Second
RefreshTTL == 60 * 24 * Hour      \* 60 * 24 * time.Hour

StatusOK                  == 200
StatusNoContent           == 204
StatusCreated             == 201
StatusBadRequest          == 400
StatusUnauthorized        == 401
StatusForbidden           == 403
StatusNotFound            == 404
StatusInternalServerError == 500

MaxChirpLen == 140    \* len(params.Body) <= 140

Workers == 1..NumWorkers

\* The clock moves by one hour, or by one hour less than the refresh TTL, so
\* that the hour before, the hour of and the hour after an expiry are reached.
TickSteps == {Hour, RefreshTTL - Hour}

\* ------------------------------------------------------------------ values
\* Secrets are strings of bytes; NUL is the zero byte.
NUL == "NUL"
Secret      == <<"k", "1">>    \* cfg.BearerToken
OtherSecret == <<"k", "2">>    \* a secret that is not the server's
UUIDNil == "00000000"
U1 == "user-1"
U2 == "user-2"

NullTime == [valid |-> FALSE, time |-> 0]

\* Strings the handlers take apart are sequences of characters.
BearerPrefix == <<"B", "e", "a", "r", "e", "r", " ">>
LowerPrefix  == <<"b", "e", "a", "r", "e", "r", " ">>
NoHeader     == <<>>
EmptyString  == <<>>
RT1 == <<"a">>
RT2 == <<"b">>
TokenStrings == {RT1, RT2}

\* Authorization header values a client sends.
Headers ==
    {NoHeader, BearerPrefix, LowerPrefix \o RT1}
        \cup {BearerPrefix \o t : t \in TokenStrings}

Emails    == {"a@b.com", "c@d.com", "nobody@b.com"}
Passwords == {"pw", "PW"}

\* uuid.New: the n-th request of a run draws the n-th of these.
FreshUUIDs == <<"new-1", "new-2", "new-3", "new-4", "new-5">>
UUIDNew(n) == FreshUUIDs[n]

\* The chirp stored before the run starts, and an ID no chirp has.
Chirp0    == "chirp-0"
ChirpNone == "chirp-404"

\* strings.HasPrefix / strings.TrimPrefix
HasPrefix(s, p) == Len(s) >= Len(p) /\ SubSeq(s, 1, Len(p)) = p
TrimPrefix(s, p) == IF HasPrefix(s, p) THEN SubSeq(s, Len(p) + 1, Len(s)) ELSE s

\* A GetBearerToken that takes the scheme in either case.
GetBearerTokenAnyCase(header) ==
    IF HasPrefix(header, BearerPrefix)
    THEN [ok |-> TRUE, token |-> TrimPrefix(header, BearerPrefix)]
    ELSE IF HasPrefix(header, LowerPrefix)
    THEN [ok |-> TRUE, token |-> TrimPrefix(header, LowerPrefix)]
    ELSE [ok |-> FALSE, token |-> EmptyString]

\* auth.GetBearerToken, on headers.Get("Authorization"): "" when the header is
\* missing.
GetBearerToken(header) ==
    IF header = EmptyString \/ ~HasPrefix(header, BearerPrefix)
    THEN [ok |-> FALSE, token |-> EmptyString]
    ELSE [ok |-> TRUE, token |-> TrimPrefix(header, BearerPrefix)]

\* The schemes of the API key header.
ApiKeyPrefix      == <<"A", "p", "i", "K", "e", "y", " ">>
LowerApiKeyPrefix == <<"a", "p", "i", "k", "e", "y", " ">>

\* A GetAPIKey that does not ask for the space after the scheme.
GetAPIKeyNoSpace(header) ==
    IF HasPrefix(header, SubSeq(ApiKeyPrefix, 1, Len(ApiKeyPrefix) - 1))
    THEN [ok |-> TRUE,
          key |-> TrimPrefix(TrimPrefix(header, SubSeq(ApiKeyPrefix, 1, Len(ApiKeyPrefix) - 1)),
                             <<" ">>)]
    ELSE [ok |-> FALSE, key |-> EmptyString]

\* auth.GetAPIKey: as GetBearerToken, with the scheme "ApiKey ".
GetAPIKey(header) ==
    IF header = EmptyString \/ ~HasPrefix(header, ApiKeyPrefix)
    THEN [ok |-> FALSE, key |-> EmptyString]
    ELSE [ok |-> TRUE, key |-> TrimPrefix(header, ApiKeyPrefix)]

\* The header values handed to the extractors: a scheme, or the start of one,
\* followed by up to MaxRestLen characters.
RestChars == {"t", " "}
Rests == UNION {[1..k -> RestChars] : k \in 0..MaxRestLen}
Schemes ==
    {EmptyString, BearerPrefix, LowerPrefix, ApiKeyPrefix, LowerApiKeyPrefix,
     SubSeq(BearerPrefix, 1, Len(BearerPrefix) - 1),
     SubSeq(ApiKeyPrefix, 1, Len(ApiKeyPrefix) - 1),
     <<"B", "a", "s", "i", "c", " ">>}
ProbeHeaders == {p \o r : p \in Schemes, r \in Rests}

\* argon2id: the stored hash names the algorithm and the salt, and carries the
\* key derived from the password and the salt.
Argon2Key(password, salt) == <<password, salt>>
HashPassword(password, salt) ==
    [alg |-> "argon2id", salt |-> salt, key |-> Argon2Key(password, salt)]

\* CheckPasswordHash, had it returned whether the comparison ran without error.
CheckPasswordHashErrOnly(password, hash) ==
    hash.alg = "argon2id"

\* auth.CheckPasswordHash
CheckPasswordHash(password, hash) ==
    /\ hash.alg = "argon2id"
    /\ Argon2Key(password, hash.salt) = hash.key

\* uuid.UUID.String / uuid.Parse
UUIDString(id) == <<"uuid", id>>
UUIDParse(s) ==
    IF Len(s) = 2 /\ s[1] = "uuid"
    THEN [ok |-> TRUE, id |-> s[2]]
    ELSE [ok |-> FALSE, id |-> UUIDNil]

\* An access token: the registered claims and the HMAC key that signed them.
NoJWT == [iss |-> "", iat |-> 0, exp |-> 0, sub |-> EmptyString, key |-> <<>>]

\* HS256: crypto/hmac fills a key shorter than the hash's block with zero
\* bytes, so secrets that differ only in zero bytes at the end are one key.
RECURSIVE HMACKey(_)
HMACKey(secret) ==
    IF Len(secret) > 0 /\ secret[Len(secret)] = NUL
    THEN HMACKey(SubSeq(secret, 1, Len(secret) - 1))
    ELSE secret

\* jwt.NewNumericDate: JWT timestamps are in seconds (t.Truncate(time.Second)).
NewNumericDate(t) == t - (t % Second)

\* MakeJWT, had it truncated the issue time and the lifetime separately.
MakeJWTSplit(userID, tokenSecret, expiresIn, t) ==
    [iss |-> "chirpy", iat |-> NewNumericDate(t),
     exp |-> NewNumericDate(t) + NewNumericDate(expiresIn),
     sub |-> UUIDString(userID), key |-> HMACKey(tokenSecret)]

\* auth.MakeJWT
MakeJWT(userID, tokenSecret, expiresIn, t) ==
    [iss |-> "chirpy", iat |-> NewNumericDate(t), exp |-> NewNumericDate(t + expiresIn),
     sub |-> UUIDString(userID), key |-> HMACKey(tokenSecret)]

\* auth.ValidateJWT: a malformed token is refused, the signature is checked
\* with tokenSecret, the token is valid while t is before exp, and the subject
\* is parsed as a UUID.
\* ValidateJWT, had it accepted a token at the instant of its expiry.
ValidateJWTLeeway(token, tokenSecret, t) ==
    IF token = NoJWT \/ token.key # HMACKey(tokenSecret) THEN [ok |-> FALSE, id |-> UUIDNil]
    ELSE IF ~(t <= token.exp) THEN [ok |-> FALSE, id |-> UUIDNil]
    ELSE UUIDParse(token.sub)

\* ValidateJWT, had it parsed the token without verifying its signature.
ValidateJWTUnverified(token, tokenSecret, t) ==
    IF token = NoJWT THEN [ok |-> FALSE, id |-> UUIDNil]
    ELSE IF ~(t < token.exp) THEN [ok |-> FALSE, id |-> UUIDNil]
    ELSE UUIDParse(token.sub)

ValidateJWT(token, tokenSecret, t) ==
    IF token = NoJWT \/ token.key # HMACKey(tokenSecret) THEN [ok |-> FALSE, id |-> UUIDNil]
    ELSE IF ~(t < token.exp) THEN [ok |-> FALSE, id |-> UUIDNil]
    ELSE UUIDParse(token.sub)

\* jwt.ParseWithClaims, the decoding part: the token strings that are signed
\* tokens and what they decode to; any other string is malformed.  J1 and J2
\* were issued by this server at hour 0 to the two users, J3 is signed with
\* another key.
J1 == <<"j", "1">>
J2 == <<"j", "2">>
J3 == <<"j", "3">>
IssuedJWTs ==
    (J1 :> MakeJWT(U1, Secret, AccessTTL, 0))
        @@ (J2 :> MakeJWT(U2, Secret, AccessTTL, 0))
        @@ (J3 :> MakeJWT(U1, OtherSecret, AccessTTL, 0))
ParseJWT(tokenString) ==
    IF tokenString \in DOMAIN IssuedJWTs THEN IssuedJWTs[tokenString] ELSE NoJWT

\* Authorization header values sent to the handlers that verify an access
\* token.
AuthHeaders == {NoHeader, BearerPrefix} \cup {BearerPrefix \o t : t \in DOMAIN IssuedJWTs}

\* auth.HashPassword: a hash with a fresh salt, or "" and an error.
EmptyHash == [alg |-> "", salt |-> 0, key |-> <<>>]
HashPasswordResults(password, salt) ==
    {[ok |-> TRUE, hash |-> HashPassword(password, salt)],
     [ok |-> FALSE, hash |-> EmptyHash]}

\* A chirp's text: its length in bytes and its words.
ChirpBodies ==
    {[len |-> MaxChirpLen, words |-> <<"hello", "Kerfuffle">>],
     [len |-> MaxChirpLen + 1, words |-> <<"hello", "world">>]}

\* strings.ToLower, on the words that occur
ToLower(word) == IF word = "Kerfuffle" THEN "kerfuffle" ELSE word

\* filterProfanity
banWords == {"kerfuffle", "sharbert", "fornax"}
filterProfanity(body) ==
    [body EXCEPT !.words = [i \in DOMAIN body.words |->
                               IF ToLower(body.words[i]) \in banWords
                               THEN "****" ELSE body.words[i]]]

\* ------------------------------------------------------------------- state
VARIABLES
    now,            \* the clock, in half seconds
    ticks,          \* clock advances so far
    started,        \* requests started so far
    users,          \* users table: email -> [id, email, hash]
    refreshTokens,  \* refresh_tokens table: token -> row
    pc,             \* per worker: where its handler stands
    loc,            \* per worker: the handler's local variables
    last,           \* the request answered last: its handler, locals and responses
    revokedDone,    \* tokens for which a revoke request was answered 204
    chirps,         \* chirps table: id -> [id, user, body]
    probe,          \* a header value and what the extractors made of it
    call,           \* a call of internal/auth's token and password functions
    chirpyRed       \* users.is_chirpy_red: the IDs of the users for whom it is true

vars == <<now, ticks, started, users, refreshTokens, pc, loc, last, revokedDone,
          chirps, probe, call, chirpyRed>>

NoRow ==
    [token |-> EmptyString, user |-> UUIDNil, created |-> 0, updated |-> 0,
     expires |-> 0, revoked |-> NullTime]

NoUser == [id |-> UUIDNil, email |-> "", hash |-> [alg |-> "", salt |-> 0, key |-> <<>>]]

NoBody  == [len |-> 0, words |-> <<>>]
NoChirp == [id |-> UUIDNil, user |-> UUIDNil, body |-> NoBody]

\* A handler's locals.  cause, at, seenRevoked and liveRevoked record what the
\* handler saw, for the properties below; the handler reads none of them.
NoLoc ==
    [email |-> "", token |-> EmptyString, user |-> NoUser,
     row |-> NoRow, access |-> NoJWT, refresh |-> EmptyString,
     cause |-> "", at |-> 0, seenRevoked |-> {}, liveRevoked |-> FALSE,
     userID |-> UUIDNil, chirp |-> NoChirp, written |-> <<>>, hashFailed |-> FALSE,
     event |-> "", header |-> NoHeader]

\* One response written to the http.ResponseWriter.
Response(code, msg, id, token, refresh) ==
    [code |-> code, msg |-> msg, id |-> id, token |-> token, refresh |-> refresh]

\* helpers.respondWithError
respondWithError(code, message) == Response(code, message, UUIDNil, NoJWT, EmptyString)

\* helpers.respondWithJSON
respondWithJSON(code, payload) == Response(code, payload, UUIDNil, NoJWT, EmptyString)

\* CreateChirp's chirpResponse: the chirp's id in the place of the message and
\* its user_id in the place of the id.
chirpResponse(code, chirp) == Response(code, chirp.id, chirp.user, NoJWT, EmptyString)

\* helpers.respondWithUserJSON
respondWithUserJSON(code, user) == Response(code, user.email, user.id, NoJWT, EmptyString)

\* ------------------------------------------------------------ persistence
\* database.Queries, keyed by exact match.
DbGetUserByEmail(email) ==
    IF email \in DOMAIN users
    THEN [ok |-> TRUE, user |-> users[email]]
    ELSE [ok |-> FALSE, user |-> NoUser]

DbGetRefreshToken(token) ==
    IF token \in DOMAIN refreshTokens
    THEN [ok |-> TRUE, row |-> refreshTokens[token]]
    ELSE [ok |-> FALSE, row |-> NoRow]

\* The token is the primary key: a second row with the same token is refused.
DbCanCreateRefreshToken(token) == token \notin DOMAIN refreshTokens

DbCreateRefreshToken(p) ==
    refreshTokens @@ (p.token :> [token |-> p.token, user |-> p.user,
                                  created |-> p.created, updated |-> p.updated,
                                  expires |-> p.expires, revoked |-> NullTime])

\* A revoke that writes revoked_at whether or not it is set already.
DbRevokeRefreshTokenOverwrite(token, revokedAt) ==
    [refreshTokens EXCEPT ![token].revoked = revokedAt]

DbCanRevokeRefreshToken(token) == token \in DOMAIN refreshTokens

\* revoked_at is set if it is not set yet.
DbRevokeRefreshToken(token, revokedAt) ==
    [refreshTokens EXCEPT ![token].revoked = IF @.valid THEN @ ELSE revokedAt]

\* The users table holds one row per email.
DbCanCreateUser(email) == email \notin DOMAIN users

DbCreateUser(user) == users @@ (user.email :> user)

DbGetUserByID(id) ==
    IF \E e \in DOMAIN users : users[e].id = id
    THEN [ok |-> TRUE, user |-> users[CHOOSE e \in DOMAIN users : users[e].id = id]]
    ELSE [ok |-> FALSE, user |-> NoUser]

DbCanUpdateUser(id, email) == email \notin DOMAIN users \/ users[email].id = id

\* The row with this ID gets the email and the hash.
DbUpdateUser(id, email, hash) ==
    IF ~DbGetUserByID(id).ok THEN users
    ELSE [e \in (DOMAIN users \ {DbGetUserByID(id).user.email}) \cup {email} |->
             IF e = email THEN [id |-> id, email |-> email, hash |-> hash]
             ELSE users[e]]

\* SetChirpyRedUserByID: an UPDATE of the user's row; no row, no change.
DbSetChirpyRedUserByID(id) ==
    IF DbGetUserByID(id).ok THEN chirpyRed \cup {id} ELSE chirpyRed

\* The chirps table, keyed by id.
DbCreateChirp(chirp) == chirps @@ (chirp.id :> chirp)

DbGetChirpByID(id) ==
    IF id \in DOMAIN chirps
    THEN [ok |-> TRUE, chirp |-> chirps[id]]
    ELSE [ok |-> FALSE, chirp |-> NoChirp]

DbRemoveChirpByID(id) == [c \in DOMAIN chirps \ {id} |-> chirps[c]]

\* auth.MakeRefreshToken: a random token, or the empty string with an error.
MakeRefreshTokenResults == TokenStrings \cup {EmptyString}

\* Nothing was handed to the extractors.
NoProbe == [header |-> NoHeader, fn |-> "none", ok |-> FALSE, out |-> EmptyString]

\* -------------------------------------------------------------------- Init
InitServer ==
    /\ now = 0
    /\ ticks = 0
    /\ started = 0
    /\ users = ("a@b.com" :> [id |-> U1, email |-> "a@b.com", hash |-> HashPassword("pw", 1)])
            @@ ("c@d.com" :> [id |-> U2, email |-> "c@d.com", hash |-> HashPassword("PW", 2)])
    /\ refreshTokens = [t \in {} |-> NoRow]
    /\ pc = [w \in Workers |-> "idle"]
    /\ loc = [w \in Workers |-> NoLoc]
    /\ last = [kind |-> "none", loc |-> NoLoc, resp |-> <<>>]
    /\ revokedDone = {}
    /\ chirpyRed = {}
    /\ chirps = (Chirp0 :> [id |-> Chirp0, user |-> U1, body |-> [len |-> 1, words |-> <<"hi">>]])

\* No call of the token and password functions yet.
NoCall == [fn |-> "none", userID |-> UUIDNil, tokenSecret |-> <<>>, expiresIn |-> 0,
           issued |-> 0, token |-> NoJWT, secret2 |-> <<>>, at |-> 0,
           ok |-> FALSE, id |-> UUIDNil,
           password |-> "", salt |-> 0, hash |-> EmptyHash, password2 |-> "",
           match |-> FALSE]

Init ==
    /\ InitServer
    /\ probe = NoProbe
    /\ call = NoCall

\* ------------------------------------------------------------------- clock
Tick ==
    /\ \A w \in Workers : pc[w] = "idle"
    /\ ticks < MaxTicks
    /\ \E d \in TickSteps : now' = now + d
    /\ ticks' = ticks + 1
    /\ UNCHANGED <<started, users, refreshTokens, pc, loc, last, revokedDone, chirps, probe, call, chirpyRed>>

\* The server hands a request to an idle worker (the first one: workers are
\* interchangeable).
Begin(w) ==
    /\ pc[w] = "idle"
    /\ \A v \in Workers : v < w => pc[v] # "idle"
    /\ started < MaxRequests
    /\ started' = started + 1

\* The handler returns: r is everything it wrote to the ResponseWriter.
Finish(w, k, l, r) ==
    /\ pc' = [pc EXCEPT ![w] = "idle"]
    /\ loc' = [loc EXCEPT ![w] = NoLoc]
    /\ last' = [kind |-> k, loc |-> l, resp |-> r]

Goto(w, label, l) ==
    /\ pc' = [pc EXCEPT ![w] = label]
    /\ loc' = [loc EXCEPT ![w] = l]
    /\ UNCHANGED last

\* --------------------------------------------------------------- LoginUser
\* A login that tells an unknown email from a wrong password.
LoginUserAsLeaky(w, decoded, email, password, rt) ==
    LET got == DbGetUserByEmail(email) IN
    /\ IF ~decoded
       THEN Finish(w, "login", [NoLoc EXCEPT !.cause = "decode"],
                   <<respondWithError(StatusInternalServerError, "Error decoding parameters")>>)
       ELSE IF ~got.ok
       THEN Finish(w, "login", [NoLoc EXCEPT !.cause = "noemail"],
                   <<respondWithError(StatusUnauthorized, "User not found")>>)
       ELSE IF ~CheckPasswordHash(password, got.user.hash)
       THEN Finish(w, "login", [NoLoc EXCEPT !.cause = "badpw"],
                   <<respondWithError(StatusUnauthorized, "Incorrect email or password")>>)
       ELSE Goto(w, "login_create",
                 [NoLoc EXCEPT !.email = email, !.user = got.user,
                               !.access = MakeJWT(got.user.id, Secret, AccessTTL, now),
                               !.refresh = rt])
    /\ UNCHANGED refreshTokens

\* A login that stores the refresh token before it checks the password.
LoginUserAsEager(w, decoded, email, password, rt) ==
    LET got == DbGetUserByEmail(email) IN
    IF ~decoded
    THEN /\ Finish(w, "login", [NoLoc EXCEPT !.cause = "decode"],
                   <<respondWithError(StatusInternalServerError, "Error decoding parameters")>>)
         /\ UNCHANGED refreshTokens
    ELSE IF ~got.ok
    THEN /\ Finish(w, "login", [NoLoc EXCEPT !.cause = "noemail"],
                   <<respondWithError(StatusUnauthorized, "Incorrect email or password")>>)
         /\ UNCHANGED refreshTokens
    ELSE IF ~CheckPasswordHash(password, got.user.hash)
    THEN /\ Finish(w, "login", [NoLoc EXCEPT !.cause = "badpw"],
                   <<respondWithError(StatusUnauthorized, "Incorrect email or password")>>)
         /\ refreshTokens' =
                IF DbCanCreateRefreshToken(rt)
                THEN DbCreateRefreshToken(
                         [token |-> rt, created |-> now, updated |-> now,
                          user |-> got.user.id, expires |-> now + RefreshTTL])
                ELSE refreshTokens
    ELSE /\ Goto(w, "login_create",
                 [NoLoc EXCEPT !.email = email, !.user = got.user,
                               !.access = MakeJWT(got.user.id, Secret, AccessTTL, now),
                               !.refresh = rt])
         /\ UNCHANGED refreshTokens

\* The body is decoded, the user is read by email, the password is checked,
\* the access token is signed and the refresh token string is drawn.
LoginUserAs(w, decoded, email, password, rt) ==
    LET got == DbGetUserByEmail(email) IN
    /\ IF ~decoded
       THEN Finish(w, "login", [NoLoc EXCEPT !.cause = "decode"],
                   <<respondWithError(StatusInternalServerError, "Error decoding parameters")>>)
       ELSE IF ~got.ok
       THEN Finish(w, "login", [NoLoc EXCEPT !.cause = "noemail"],
                   <<respondWithError(StatusUnauthorized, "Incorrect email or password")>>)
       ELSE IF ~CheckPasswordHash(password, got.user.hash)
       THEN Finish(w, "login", [NoLoc EXCEPT !.cause = "badpw"],
                   <<respondWithError(StatusUnauthorized, "Incorrect email or password")>>)
       ELSE Goto(w, "login_create",
                 [NoLoc EXCEPT !.email = email, !.user = got.user,
                               !.access = MakeJWT(got.user.id, Secret, AccessTTL, now),
                               !.refresh = rt])
    /\ UNCHANGED refreshTokens

\* A body that cannot be decoded leaves the parameters empty; MakeRefreshToken
\* is called once the password has been accepted.
LoginUser(w) ==
    /\ Begin(w)
    /\ \E decoded \in BOOLEAN :
       \E email \in IF decoded THEN Emails ELSE {""},
          password \in IF decoded THEN Passwords ELSE {""} :
         \E rt \in IF /\ decoded
                      /\ DbGetUserByEmail(email).ok
                      /\ CheckPasswordHash(password, DbGetUserByEmail(email).user.hash)
                   THEN MakeRefreshTokenResults
                   ELSE {EmptyString} :
            LoginUserAs(w, decoded, email, password, rt)
    /\ UNCHANGED <<now, ticks, users, revokedDone, chirps, probe, call, chirpyRed>>

\* A login that stores the row with ExpiresAt = time.Now().
LoginUserCreateNoTTL(w) ==
    /\ pc[w] = "login_create"
    /\ \E dbOk \in BOOLEAN :
         IF ~dbOk \/ ~DbCanCreateRefreshToken(loc[w].refresh)
         THEN /\ Finish(w, "login", [loc[w] EXCEPT !.cause = "persist"],
                        <<respondWithError(StatusInternalServerError, "Failed to generate refresh token")>>)
              /\ UNCHANGED refreshTokens
         ELSE /\ refreshTokens' = DbCreateRefreshToken(
                    [token |-> loc[w].refresh, created |-> now, updated |-> now,
                     user |-> loc[w].user.id, expires |-> now])
              /\ Finish(w, "login", [loc[w] EXCEPT !.cause = "ok"],
                        <<Response(StatusOK, loc[w].user.email, loc[w].user.id,
                                   loc[w].access, loc[w].refresh)>>)
    /\ UNCHANGED <<now, ticks, started, users, revokedDone, chirps, probe, call, chirpyRed>>

\* A login that answers the failed insert and then goes on to the success
\* response (a missing return).
LoginUserCreateNoReturn(w) ==
    /\ pc[w] = "login_create"
    /\ \E dbOk \in BOOLEAN :
         IF ~dbOk \/ ~DbCanCreateRefreshToken(loc[w].refresh)
         THEN /\ Finish(w, "login", [loc[w] EXCEPT !.cause = "persist"],
                        <<respondWithError(StatusInternalServerError, "Failed to generate refresh token"),
                          Response(StatusOK, loc[w].user.email, loc[w].user.id,
                                   loc[w].access, loc[w].refresh)>>)
              /\ UNCHANGED refreshTokens
         ELSE /\ refreshTokens' = DbCreateRefreshToken(
                    [token |-> loc[w].refresh, created |-> now, updated |-> now,
                     user |-> loc[w].user.id, expires |-> now + RefreshTTL])
              /\ Finish(w, "login", [loc[w] EXCEPT !.cause = "ok"],
                        <<Response(StatusOK, loc[w].user.email, loc[w].user.id,
                                   loc[w].access, loc[w].refresh)>>)
    /\ UNCHANGED <<now, ticks, started, users, revokedDone, chirps, probe, call, chirpyRed>>

\* LoginUser, from CreateRefreshToken on: the row is inserted and the tokens
\* are returned.  The clock is read three times, for CreatedAt, UpdatedAt and
\* ExpiresAt; elapsed is the time that passes from the first to the third.
LoginUserCreateAs(w, dbOk, elapsed) ==
    IF ~dbOk \/ ~DbCanCreateRefreshToken(loc[w].refresh)
    THEN /\ Finish(w, "login", [loc[w] EXCEPT !.cause = "persist"],
                   <<respondWithError(StatusInternalServerError, "Failed to generate refresh token")>>)
         /\ UNCHANGED refreshTokens
    ELSE /\ refreshTokens' = DbCreateRefreshToken(
               [token |-> loc[w].refresh, created |-> now, updated |-> now,
                user |-> loc[w].user.id, expires |-> now + elapsed + RefreshTTL])
         /\ Finish(w, "login", [loc[w] EXCEPT !.cause = "ok"],
                   <<Response(StatusOK, loc[w].user.email, loc[w].user.id,
                              loc[w].access, loc[w].refresh)>>)

\* The three readings of the clock fall into one instant.
LoginUserCreate(w) ==
    /\ pc[w] = "login_create"
    /\ \E dbOk \in BOOLEAN : LoginUserCreateAs(w, dbOk, 0)
    /\ UNCHANGED <<now, ticks, started, users, revokedDone, chirps, probe, call, chirpyRed>>

\* The clock may move on between the readings.
ClockSteps == {0, 1}

LoginUserCreateSlow(w) ==
    /\ pc[w] = "login_create"
    /\ \E dbOk \in BOOLEAN, elapsed \in ClockSteps : LoginUserCreateAs(w, dbOk, elapsed)
    /\ UNCHANGED <<now, ticks, started, users, revokedDone, chirps, probe, call, chirpyRed>>

\* ----------------------------------------------------- RefreshTokenHandler
\* The bearer token is taken from the header and its row is read.
RefreshTokenHandler(w) ==
    /\ Begin(w)
    /\ \E header \in Headers :
         LET bearer == GetBearerToken(header)
             got    == DbGetRefreshToken(bearer.token)
             l      == [NoLoc EXCEPT !.token = bearer.token, !.at = now,
                                     !.seenRevoked = revokedDone]
         IN
         IF ~bearer.ok
         THEN Finish(w, "refresh", [l EXCEPT !.cause = "header"],
                     <<respondWithError(StatusUnauthorized, "Missing Authorization header")>>)
         ELSE IF bearer.token = EmptyString
         THEN Finish(w, "refresh", [l EXCEPT !.cause = "empty"],
                     <<respondWithError(StatusUnauthorized, "Invalid token")>>)
         ELSE IF ~got.ok
         THEN Finish(w, "refresh", [l EXCEPT !.cause = "notfound"],
                     <<respondWithError(StatusUnauthorized, "Invalid token")>>)
         ELSE Goto(w, "refresh_check", [l EXCEPT !.row = got.row])
    /\ UNCHANGED <<now, ticks, users, refreshTokens, revokedDone, chirps, probe, call, chirpyRed>>

\* A refresh that leaves out the revocation check.
RefreshDecideNoRevoked(w, row, l) ==
    /\ IF row.expires < now
       THEN Finish(w, "refresh", [l EXCEPT !.cause = "expired"],
                   <<respondWithError(StatusUnauthorized, "Refresh token expired")>>)
       ELSE Finish(w, "refresh",
                   [l EXCEPT !.cause = "ok",
                             !.access = MakeJWT(row.user, Secret, AccessTTL, now)],
                   <<Response(StatusOK, "", UUIDNil,
                              MakeJWT(row.user, Secret, AccessTTL, now), EmptyString)>>)
    /\ UNCHANGED refreshTokens

\* A refresh that leaves out the expiry check.
RefreshDecideNoExpiry(w, row, l) ==
    /\ IF row.revoked.valid
       THEN Finish(w, "refresh", [l EXCEPT !.cause = "revoked"],
                   <<respondWithError(StatusUnauthorized, "Refresh token revoked")>>)
       ELSE Finish(w, "refresh",
                   [l EXCEPT !.cause = "ok",
                             !.access = MakeJWT(row.user, Secret, AccessTTL, now)],
                   <<Response(StatusOK, "", UUIDNil,
                              MakeJWT(row.user, Secret, AccessTTL, now), EmptyString)>>)
    /\ UNCHANGED refreshTokens

\* A refresh that extends the refresh token's life whenever it succeeds.
RefreshDecideSliding(w, row, l) ==
    IF row.expires < now
    THEN /\ Finish(w, "refresh", [l EXCEPT !.cause = "expired"],
                   <<respondWithError(StatusUnauthorized, "Refresh token expired")>>)
         /\ UNCHANGED refreshTokens
    ELSE IF row.revoked.valid
    THEN /\ Finish(w, "refresh", [l EXCEPT !.cause = "revoked"],
                   <<respondWithError(StatusUnauthorized, "Refresh token revoked")>>)
         /\ UNCHANGED refreshTokens
    ELSE /\ Finish(w, "refresh",
                   [l EXCEPT !.cause = "ok",
                             !.access = MakeJWT(row.user, Secret, AccessTTL, now)],
                   <<Response(StatusOK, "", UUIDNil,
                              MakeJWT(row.user, Secret, AccessTTL, now), EmptyString)>>)
         /\ refreshTokens' = [refreshTokens EXCEPT ![row.token].expires = now + RefreshTTL]

\* A refresh that signs the access token for a fixed user, not the row's.
RefreshDecideFixedSubject(w, row, l) ==
    /\ IF row.expires < now
       THEN Finish(w, "refresh", [l EXCEPT !.cause = "expired"],
                   <<respondWithError(StatusUnauthorized, "Refresh token expired")>>)
       ELSE IF row.revoked.valid
       THEN Finish(w, "refresh", [l EXCEPT !.cause = "revoked"],
                   <<respondWithError(StatusUnauthorized, "Refresh token revoked")>>)
       ELSE Finish(w, "refresh",
                   [l EXCEPT !.cause = "ok",
                             !.access = MakeJWT(U1, Secret, AccessTTL, now)],
                   <<Response(StatusOK, "", UUIDNil,
                              MakeJWT(U1, Secret, AccessTTL, now), EmptyString)>>)
    /\ UNCHANGED refreshTokens

\* A refresh that rotates: the token it accepted is revoked.
RefreshDecideRotating(w, row, l) ==
    IF row.expires < now
    THEN /\ Finish(w, "refresh", [l EXCEPT !.cause = "expired"],
                   <<respondWithError(StatusUnauthorized, "Refresh token expired")>>)
         /\ UNCHANGED refreshTokens
    ELSE IF row.revoked.valid
    THEN /\ Finish(w, "refresh", [l EXCEPT !.cause = "revoked"],
                   <<respondWithError(StatusUnauthorized, "Refresh token revoked")>>)
         /\ UNCHANGED refreshTokens
    ELSE /\ Finish(w, "refresh",
                   [l EXCEPT !.cause = "ok",
                             !.access = MakeJWT(row.user, Secret, AccessTTL, now)],
                   <<Response(StatusOK, "", UUIDNil,
                              MakeJWT(row.user, Secret, AccessTTL, now), EmptyString)>>)
         /\ refreshTokens' = [refreshTokens EXCEPT ![row.token].revoked =
                                                      [valid |-> TRUE, time |-> now]]

\* The checks on the row that was read: expired, revoked, or an access token
\* for the row's user.  The table is not written.
RefreshDecide(w, row, l) ==
    /\ IF row.expires < now
       THEN Finish(w, "refresh", [l EXCEPT !.cause = "expired"],
                   <<respondWithError(StatusUnauthorized, "Refresh token expired")>>)
       ELSE IF row.revoked.valid
       THEN Finish(w, "refresh", [l EXCEPT !.cause = "revoked"],
                   <<respondWithError(StatusUnauthorized, "Refresh token revoked")>>)
       ELSE Finish(w, "refresh",
                   [l EXCEPT !.cause = "ok",
                             !.access = MakeJWT(row.user, Secret, AccessTTL, now)],
                   <<Response(StatusOK, "", UUIDNil,
                              MakeJWT(row.user, Secret, AccessTTL, now), EmptyString)>>)
    /\ UNCHANGED refreshTokens

\* RefreshTokenHandler, after GetRefreshToken has returned the row.
RefreshTokenHandlerCheck(w) ==
    /\ pc[w] = "refresh_check"
    /\ RefreshDecide(w, loc[w].row,
                     [loc[w] EXCEPT !.liveRevoked =
                                        refreshTokens[loc[w].row.token].revoked.valid])
    /\ UNCHANGED <<now, ticks, started, users, revokedDone, chirps, probe, call, chirpyRed>>

\* ------------------------------------------------------ RevokeRefreshToken
\* A revoke without the check for the empty token: after a missing header it
\* goes on to the table with the empty string.
RevokeRefreshTokenNoEmptyCheck(w) ==
    /\ Begin(w)
    /\ \E header \in Headers, dbOk \in BOOLEAN :
         LET bearer == GetBearerToken(header)
             l      == [NoLoc EXCEPT !.token = bearer.token, !.at = now]
             first  == IF bearer.ok THEN <<>>
                       ELSE <<respondWithError(StatusUnauthorized, "Missing Authorization header")>>
         IN
         IF ~dbOk \/ ~DbCanRevokeRefreshToken(bearer.token)
         THEN /\ Finish(w, "revoke", [l EXCEPT !.cause = IF bearer.ok THEN "persist" ELSE "header"],
                        Append(first, respondWithError(StatusInternalServerError,
                                                       "Failed to revoke refresh token")))
              /\ UNCHANGED <<refreshTokens, revokedDone>>
         ELSE /\ refreshTokens' = DbRevokeRefreshToken(bearer.token,
                                                       [valid |-> TRUE, time |-> now])
              /\ revokedDone' = revokedDone \cup {bearer.token}
              /\ Finish(w, "revoke", [l EXCEPT !.cause = IF bearer.ok THEN "ok" ELSE "header"],
                        Append(first, respondWithJSON(StatusNoContent, "Refresh token revoked")))
    /\ UNCHANGED <<now, ticks, users, chirps, probe, call, chirpyRed>>

\* A missing header is answered and the handler goes on with the empty token,
\* which is answered again; any other token is revoked in the table.
RevokeRefreshToken(w) ==
    /\ Begin(w)
    /\ \E header \in Headers :
       \E dbOk \in IF GetBearerToken(header).token = EmptyString THEN {TRUE} ELSE BOOLEAN :
         LET bearer == GetBearerToken(header)
             l      == [NoLoc EXCEPT !.token = bearer.token, !.at = now]
             first  == IF bearer.ok THEN <<>>
                       ELSE <<respondWithError(StatusUnauthorized, "Missing Authorization header")>>
         IN
         IF bearer.token = EmptyString
         THEN /\ Finish(w, "revoke", [l EXCEPT !.cause = IF bearer.ok THEN "empty" ELSE "header"],
                        Append(first, respondWithError(StatusUnauthorized, "Invalid token")))
              /\ UNCHANGED <<refreshTokens, revokedDone>>
         ELSE IF ~dbOk \/ ~DbCanRevokeRefreshToken(bearer.token)
         THEN /\ Finish(w, "revoke", [l EXCEPT !.cause = "persist"],
                        Append(first, respondWithError(StatusInternalServerError,
                                                       "Failed to revoke refresh token")))
              /\ UNCHANGED <<refreshTokens, revokedDone>>
         ELSE /\ refreshTokens' = DbRevokeRefreshToken(bearer.token,
                                                       [valid |-> TRUE, time |-> now])
              /\ revokedDone' = revokedDone \cup {bearer.token}
              /\ Finish(w, "revoke", [l EXCEPT !.cause = "ok"],
                        Append(first, respondWithJSON(StatusNoContent, "Refresh token revoked")))
    /\ UNCHANGED <<now, ticks, users, chirps, probe, call, chirpyRed>>

\* ------------------------------------------------------------ RegisterUser
RegisterEmails == {"a@b.com", "nobody@b.com"}
UpdateEmails   == {"a@b.com", "e@f.com"}

\* The salt argon2id draws for the hash of the request being started.
FreshSalt == started + 3

\* The body is decoded and the password hashed; a hashing error is answered
\* and the handler goes on to CreateUser with the empty hash.
RegisterUserAs(w, decoded, email, hashed, dbOk) ==
    LET l       == [NoLoc EXCEPT !.email = email, !.hashFailed = ~hashed.ok]
        written == IF hashed.ok THEN <<>>
                   ELSE <<respondWithError(StatusInternalServerError, "Error hashing password")>>
        user    == [id |-> UUIDNew(started + 1), email |-> email, hash |-> hashed.hash]
    IN
    IF ~decoded
    THEN /\ Finish(w, "register", [NoLoc EXCEPT !.cause = "decode"],
                   <<respondWithError(StatusInternalServerError, "Error decoding parameters")>>)
         /\ UNCHANGED users
    ELSE IF ~dbOk \/ ~DbCanCreateUser(email)
    THEN /\ Finish(w, "register", [l EXCEPT !.cause = "persist"],
                   Append(written, respondWithError(StatusInternalServerError, "Error creating user")))
         /\ UNCHANGED users
    ELSE /\ users' = DbCreateUser(user)
         /\ Finish(w, "register", [l EXCEPT !.cause = "ok", !.user = user],
                   Append(written, respondWithUserJSON(StatusCreated, user)))

RegisterUser(w) ==
    /\ Begin(w)
    /\ \E decoded \in BOOLEAN, email \in RegisterEmails, password \in Passwords,
          dbOk \in BOOLEAN :
         \E hashed \in HashPasswordResults(password, FreshSalt) :
            RegisterUserAs(w, decoded, email, hashed, dbOk)
    /\ UNCHANGED <<now, ticks, refreshTokens, revokedDone, chirps, probe, call, chirpyRed>>

\* -------------------------------------------------------------- UpdateUser
\* The access token is verified, the body decoded and the password hashed; a
\* hashing error is answered and the handler goes on to UpdateUser with the
\* empty hash.
UpdateUserAs(w, header, decoded, email, hashed, dbOk) ==
    LET bearer  == GetBearerToken(header)
        valid   == ValidateJWT(ParseJWT(bearer.token), Secret, now)
        l       == [NoLoc EXCEPT !.token = bearer.token, !.at = now]
        l2      == [l EXCEPT !.userID = valid.id, !.email = email,
                             !.hashFailed = ~hashed.ok]
        written == IF hashed.ok THEN <<>>
                   ELSE <<respondWithError(StatusInternalServerError, "Error hashing password")>>
    IN
    IF ~bearer.ok
    THEN /\ Finish(w, "update", [l EXCEPT !.cause = "header"],
                   <<respondWithError(StatusUnauthorized, "Missing Authorization header")>>)
         /\ UNCHANGED users
    ELSE IF bearer.token = EmptyString
    THEN /\ Finish(w, "update", [l EXCEPT !.cause = "empty"],
                   <<respondWithError(StatusUnauthorized, "Invalid token")>>)
         /\ UNCHANGED users
    ELSE IF ~valid.ok
    THEN /\ Finish(w, "update", [l EXCEPT !.cause = "jwt"],
                   <<respondWithError(StatusUnauthorized, "User not authorized")>>)
         /\ UNCHANGED users
    ELSE IF ~decoded
    THEN /\ Finish(w, "update", [l EXCEPT !.cause = "decode", !.userID = valid.id],
                   <<respondWithError(StatusInternalServerError, "Error decoding parameters")>>)
         /\ UNCHANGED users
    ELSE IF ~dbOk \/ ~DbCanUpdateUser(valid.id, email)
    THEN /\ Finish(w, "update", [l2 EXCEPT !.cause = "persist"],
                   Append(written, respondWithError(StatusInternalServerError, "Error updating user")))
         /\ UNCHANGED users
    ELSE /\ users' = DbUpdateUser(valid.id, email, hashed.hash)
         /\ Goto(w, "update_get", [l2 EXCEPT !.written = written])

UpdateUser(w) ==
    /\ Begin(w)
    /\ \E header \in AuthHeaders, decoded \in BOOLEAN, email \in UpdateEmails,
          password \in Passwords, dbOk \in BOOLEAN :
         \E hashed \in HashPasswordResults(password, FreshSalt) :
            UpdateUserAs(w, header, decoded, email, hashed, dbOk)
    /\ UNCHANGED <<now, ticks, refreshTokens, revokedDone, chirps, probe, call, chirpyRed>>

\* UpdateUser, from GetUserByID on.
UpdateUserGet(w) ==
    /\ pc[w] = "update_get"
    /\ LET got == DbGetUserByID(loc[w].userID) IN
       IF ~got.ok
       THEN Finish(w, "update", [loc[w] EXCEPT !.cause = "gone"],
                   Append(loc[w].written,
                          respondWithError(StatusInternalServerError, "Error getting user")))
       ELSE Finish(w, "update", [loc[w] EXCEPT !.cause = "ok", !.user = got.user],
                   Append(loc[w].written, respondWithUserJSON(StatusOK, got.user)))
    /\ UNCHANGED <<now, ticks, started, users, refreshTokens, revokedDone, chirps, probe, call, chirpyRed>>

\* A CreateChirp that refuses the access tokens of a user one of whose
\* refresh tokens is revoked.
CreateChirpAsRevocable(w, decoded, header, body, dbOk) ==
    LET bearer == GetBearerToken(header)
        jwt    == ValidateJWT(ParseJWT(bearer.token), Secret, now)
        valid  == IF \E r \in DOMAIN refreshTokens :
                        refreshTokens[r].revoked.valid /\ refreshTokens[r].user = jwt.id
                  THEN [ok |-> FALSE, id |-> UUIDNil]
                  ELSE jwt
        l      == [NoLoc EXCEPT !.header = header, !.token = bearer.token, !.at = now]
        chirp  == [id |-> UUIDNew(started + 1), user |-> valid.id,
                   body |-> filterProfanity(body)]
    IN
    IF ~decoded
    THEN /\ Finish(w, "create", [NoLoc EXCEPT !.header = header, !.cause = "decode", !.at = now],
                   <<respondWithError(StatusInternalServerError, "Error decoding parameters")>>)
         /\ UNCHANGED chirps
    ELSE IF ~bearer.ok
    THEN /\ Finish(w, "create", [l EXCEPT !.cause = "header"],
                   <<respondWithError(StatusUnauthorized, "Missing Authorization header")>>)
         /\ UNCHANGED chirps
    ELSE IF ~valid.ok
    THEN /\ Finish(w, "create", [l EXCEPT !.cause = "jwt"],
                   <<respondWithError(StatusUnauthorized, "User not authorized")>>)
         /\ UNCHANGED chirps
    ELSE IF body.len > MaxChirpLen
    THEN /\ Finish(w, "create", [l EXCEPT !.cause = "long", !.userID = valid.id],
                   <<respondWithError(StatusBadRequest, "Chirp is too long")>>)
         /\ UNCHANGED chirps
    ELSE IF ~dbOk
    THEN /\ Finish(w, "create", [l EXCEPT !.cause = "persist", !.userID = valid.id],
                   <<respondWithError(StatusInternalServerError, "Error creating chirp")>>)
         /\ UNCHANGED chirps
    ELSE /\ chirps' = DbCreateChirp(chirp)
         /\ Finish(w, "create", [l EXCEPT !.cause = "ok", !.userID = valid.id, !.chirp = chirp],
                   <<chirpResponse(StatusCreated, chirp)>>)

\* ------------------------------------------------------------- CreateChirp
\* The body is decoded first, then the access token is verified; a chirp of
\* at most 140 bytes is filtered and stored for the verified user.
CreateChirpAs(w, decoded, header, body, dbOk) ==
    LET bearer == GetBearerToken(header)
        valid  == ValidateJWT(ParseJWT(bearer.token), Secret, now)
        l      == [NoLoc EXCEPT !.header = header, !.token = bearer.token, !.at = now]
        chirp  == [id |-> UUIDNew(started + 1), user |-> valid.id,
                   body |-> filterProfanity(body)]
    IN
    IF ~decoded
    THEN /\ Finish(w, "create", [NoLoc EXCEPT !.header = header, !.cause = "decode", !.at = now],
                   <<respondWithError(StatusInternalServerError, "Error decoding parameters")>>)
         /\ UNCHANGED chirps
    ELSE IF ~bearer.ok
    THEN /\ Finish(w, "create", [l EXCEPT !.cause = "header"],
                   <<respondWithError(StatusUnauthorized, "Missing Authorization header")>>)
         /\ UNCHANGED chirps
    ELSE IF ~valid.ok
    THEN /\ Finish(w, "create", [l EXCEPT !.cause = "jwt"],
                   <<respondWithError(StatusUnauthorized, "User not authorized")>>)
         /\ UNCHANGED chirps
    ELSE IF body.len > MaxChirpLen
    THEN /\ Finish(w, "create", [l EXCEPT !.cause = "long", !.userID = valid.id],
                   <<respondWithError(StatusBadRequest, "Chirp is too long")>>)
         /\ UNCHANGED chirps
    ELSE IF ~dbOk
    THEN /\ Finish(w, "create", [l EXCEPT !.cause = "persist", !.userID = valid.id],
                   <<respondWithError(StatusInternalServerError, "Error creating chirp")>>)
         /\ UNCHANGED chirps
    ELSE /\ chirps' = DbCreateChirp(chirp)
         /\ Finish(w, "create", [l EXCEPT !.cause = "ok", !.userID = valid.id, !.chirp = chirp],
                   <<chirpResponse(StatusCreated, chirp)>>)

CreateChirp(w) ==
    /\ Begin(w)
    /\ \E decoded \in BOOLEAN, header \in AuthHeaders, body \in ChirpBodies,
          dbOk \in BOOLEAN :
         CreateChirpAs(w, decoded, header, body, dbOk)
    /\ UNCHANGED <<now, ticks, users, refreshTokens, revokedDone, probe, call, chirpyRed>>

\* A chirp that is stored if the request is authorized: the body decodes
\* and fits, the insert succeeds.
ShortChirp == CHOOSE body \in ChirpBodies : body.len <= MaxChirpLen

CreateChirpStored(w) ==
    /\ Begin(w)
    /\ \E header \in AuthHeaders : CreateChirpAs(w, TRUE, header, ShortChirp, TRUE)
    /\ UNCHANGED <<now, ticks, users, refreshTokens, revokedDone, probe, call, chirpyRed>>

\* --------------------------------------------------------- DeleteChirpByID
\* The {id} path values sent: the IDs of the stored chirps, an ID no chirp
\* has, and a string that is no UUID.
BadUUID == <<"x">>
PathIDs == {UUIDString(c) : c \in DOMAIN chirps \cup {ChirpNone}} \cup {BadUUID}

\* A delete that does not compare the chirp's user with the caller.
DeleteChirpByIDAsAnyUser(w, header, id) ==
    LET bearer == GetBearerToken(header)
        valid  == ValidateJWT(ParseJWT(bearer.token), Secret, now)
        l      == [NoLoc EXCEPT !.token = bearer.token, !.at = now]
        parsed == UUIDParse(id)
        got    == DbGetChirpByID(parsed.id)
        l2     == [l EXCEPT !.userID = valid.id, !.chirp = got.chirp]
    IN
    IF ~bearer.ok
    THEN Finish(w, "delete", [l EXCEPT !.cause = "header"],
                <<respondWithError(StatusUnauthorized, "Missing Authorization header")>>)
    ELSE IF ~valid.ok
    THEN Finish(w, "delete", [l EXCEPT !.cause = "jwt"],
                <<respondWithError(StatusUnauthorized, "User not authorized")>>)
    ELSE IF ~parsed.ok
    THEN Finish(w, "delete", [l EXCEPT !.cause = "panic", !.userID = valid.id], <<>>)
    ELSE IF ~got.ok
    THEN Finish(w, "delete", [l2 EXCEPT !.cause = "notfound"],
                <<respondWithError(StatusNotFound, "Error getting chirp")>>)
    ELSE Goto(w, "delete_remove", l2)

\* The access token is verified, the chirp is read by the path's id and its
\* user is compared with the caller.  uuid.MustParse panics on a string that
\* is no UUID: net/http recovers and nothing is written.
DeleteChirpByIDAs(w, header, id) ==
    LET bearer == GetBearerToken(header)
        valid  == ValidateJWT(ParseJWT(bearer.token), Secret, now)
        l      == [NoLoc EXCEPT !.token = bearer.token, !.at = now]
        parsed == UUIDParse(id)
        got    == DbGetChirpByID(parsed.id)
        l2     == [l EXCEPT !.userID = valid.id, !.chirp = got.chirp]
    IN
    IF ~bearer.ok
    THEN Finish(w, "delete", [l EXCEPT !.cause = "header"],
                <<respondWithError(StatusUnauthorized, "Missing Authorization header")>>)
    ELSE IF ~valid.ok
    THEN Finish(w, "delete", [l EXCEPT !.cause = "jwt"],
                <<respondWithError(StatusUnauthorized, "User not authorized")>>)
    ELSE IF ~parsed.ok
    THEN Finish(w, "delete", [l EXCEPT !.cause = "panic", !.userID = valid.id], <<>>)
    ELSE IF ~got.ok
    THEN Finish(w, "delete", [l2 EXCEPT !.cause = "notfound"],
                <<respondWithError(StatusNotFound, "Error getting chirp")>>)
    ELSE IF got.chirp.user # valid.id
    THEN Finish(w, "delete", [l2 EXCEPT !.cause = "forbidden"],
                <<respondWithError(StatusForbidden, "User not authorized")>>)
    ELSE Goto(w, "delete_remove", l2)

DeleteChirpByID(w) ==
    /\ Begin(w)
    /\ \E header \in AuthHeaders, id \in PathIDs : DeleteChirpByIDAs(w, header, id)
    /\ UNCHANGED <<now, ticks, users, refreshTokens, revokedDone, chirps, probe, call, chirpyRed>>

\* DeleteChirpByID, from RemoveChirpByID on.
DeleteChirpByIDRemove(w) ==
    /\ pc[w] = "delete_remove"
    /\ \E dbOk \in BOOLEAN :
         IF ~dbOk
         THEN /\ Finish(w, "delete", [loc[w] EXCEPT !.cause = "persist"],
                        <<respondWithError(StatusNotFound, "Error deleting chirp")>>)
              /\ UNCHANGED chirps
         ELSE /\ chirps' = DbRemoveChirpByID(loc[w].chirp.id)
              /\ Finish(w, "delete", [loc[w] EXCEPT !.cause = "ok"],
                        <<respondWithJSON(StatusNoContent, "Chirp deleted")>>)
    /\ UNCHANGED <<now, ticks, started, users, refreshTokens, revokedDone, probe, call, chirpyRed>>

\* -------------------------------------------------------- ChirpyRedWebhook
\* The key the payment provider holds (POLKA_KEY in the environment), and
\* cfg.APIKey, which main leaves at its zero value.
PolkaKey == <<"p", "k">>
APIKey   == EmptyString

\* Authorization header values, events and user IDs of webhook requests.
WebhookHeaders ==
    {NoHeader, ApiKeyPrefix, ApiKeyPrefix \o PolkaKey, ApiKeyPrefix \o <<"x">>,
     BearerPrefix \o PolkaKey}
WebhookEvents  == {"user.upgraded", "user.downgraded"}
WebhookUserIDs == {UUIDString(U1), UUIDString(U2), UUIDString(ChirpNone), BadUUID}

\* The key is extracted and compared with cfg.APIKey, then the body is
\* decoded; for the event "user.upgraded" the user is marked.
ChirpyRedWebhookAs(w, header, decoded, event, id, dbOk) ==
    LET apiKey == GetAPIKey(header)
        l      == [NoLoc EXCEPT !.token = apiKey.key, !.at = now]
        l2     == [l EXCEPT !.event = event]
        parsed == UUIDParse(id)
    IN
    IF ~apiKey.ok
    THEN /\ Finish(w, "webhook", [l EXCEPT !.cause = "header"],
                   <<respondWithError(StatusUnauthorized, "Missing Authorization header")>>)
         /\ UNCHANGED chirpyRed
    ELSE IF apiKey.key # APIKey
    THEN /\ Finish(w, "webhook", [l EXCEPT !.cause = "key"],
                   <<respondWithError(StatusUnauthorized, "Invalid API-Key")>>)
         /\ UNCHANGED chirpyRed
    ELSE IF ~decoded
    THEN /\ Finish(w, "webhook", [l EXCEPT !.cause = "decode"],
                   <<respondWithError(StatusInternalServerError, "Error decoding parameters")>>)
         /\ UNCHANGED chirpyRed
    ELSE IF event # "user.upgraded"
    THEN /\ Finish(w, "webhook", [l2 EXCEPT !.cause = "event"],
                   <<respondWithError(StatusNoContent, "Invalid event")>>)
         /\ UNCHANGED chirpyRed
    ELSE IF ~parsed.ok
    THEN /\ Finish(w, "webhook", [l2 EXCEPT !.cause = "panic"], <<>>)
         /\ UNCHANGED chirpyRed
    ELSE IF ~dbOk
    THEN /\ Finish(w, "webhook", [l2 EXCEPT !.cause = "persist", !.userID = parsed.id],
                   <<respondWithError(StatusNotFound, "Error updating user")>>)
         /\ UNCHANGED chirpyRed
    ELSE /\ chirpyRed' = DbSetChirpyRedUserByID(parsed.id)
         /\ Finish(w, "webhook", [l2 EXCEPT !.cause = "ok", !.userID = parsed.id],
                   <<respondWithJSON(StatusNoContent, "User upgraded")>>)

ChirpyRedWebhook(w) ==
    /\ Begin(w)
    /\ \E header \in WebhookHeaders, decoded \in BOOLEAN, event \in WebhookEvents,
          id \in WebhookUserIDs, dbOk \in BOOLEAN :
         ChirpyRedWebhookAs(w, header, decoded, event, id, dbOk)
    /\ UNCHANGED <<now, ticks, users, refreshTokens, revokedDone, chirps, probe, call>>

\* ---------------------------------------------------------- the extractors
\* A header value is handed to GetBearerToken, or to GetAPIKey.
InitExtract ==
    /\ InitServer
    /\ probe \in {[NoProbe EXCEPT !.header = h] : h \in ProbeHeaders}
    /\ call = NoCall

ExtractBearer ==
    /\ probe.fn = "none"
    /\ probe' = [probe EXCEPT !.fn = "GetBearerToken",
                              !.ok = GetBearerToken(probe.header).ok,
                              !.out = GetBearerToken(probe.header).token]
    /\ UNCHANGED <<now, ticks, started, users, refreshTokens, pc, loc, last,
                   revokedDone, chirps, call, chirpyRed>>

ExtractAPIKey ==
    /\ probe.fn = "none"
    /\ probe' = [probe EXCEPT !.fn = "GetAPIKey",
                              !.ok = GetAPIKey(probe.header).ok,
                              !.out = GetAPIKey(probe.header).key]
    /\ UNCHANGED <<now, ticks, started, users, refreshTokens, pc, loc, last,
                   revokedDone, chirps, call, chirpyRed>>

NextExtract == ExtractBearer \/ ExtractAPIKey

SpecExtract == InitExtract /\ [][NextExtract]_vars

\* ------------------------------------------------- tokens and passwords
\* MakeJWT and then ValidateJWT, HashPassword and then CheckPasswordHash, on
\* inputs of the caller's choice.  Times are in half seconds, so that a token
\* can be issued and presented inside a second.
CallUsers   == {U1, U2}
CallSecrets == {<<>>, Secret, OtherSecret, Secret \o <<NUL>>, <<NUL>>}
CallTTLs    == {0 - Second, 0, 1, Second, Second + 1}
CallTimes   == 0..MaxCallTime
CallPasswords == {"", "pw", "PW"}
CallSalts   == {1, 2}

CallMakeJWT ==
    /\ call.fn = "none"
    /\ \E u \in CallUsers, s \in CallSecrets, ttl \in CallTTLs, t \in CallTimes :
         call' = [call EXCEPT !.fn = "MakeJWT", !.userID = u, !.tokenSecret = s,
                              !.expiresIn = ttl, !.issued = t,
                              !.token = MakeJWT(u, s, ttl, t)]
    /\ UNCHANGED <<now, ticks, started, users, refreshTokens, pc, loc, last,
                   revokedDone, chirps, probe, chirpyRed>>

\* The token is presented, and may be presented again later.
CallValidateJWT ==
    /\ call.fn \in {"MakeJWT", "ValidateJWT"}
    /\ \E s \in CallSecrets,
          t \in (IF call.fn = "MakeJWT" THEN call.issued ELSE call.at)..MaxCallTime :
         LET v == ValidateJWT(call.token, s, t)
         IN  call' = [call EXCEPT !.fn = "ValidateJWT", !.secret2 = s, !.at = t,
                                  !.ok = v.ok, !.id = v.id]
    /\ UNCHANGED <<now, ticks, started, users, refreshTokens, pc, loc, last,
                   revokedDone, chirps, probe, chirpyRed>>

CallHashPassword ==
    /\ call.fn = "none"
    /\ \E p \in CallPasswords, salt \in CallSalts :
         \E h \in HashPasswordResults(p, salt) :
            call' = [call EXCEPT !.fn = "HashPassword", !.password = p,
                                 !.salt = salt, !.ok = h.ok, !.hash = h.hash]
    /\ UNCHANGED <<now, ticks, started, users, refreshTokens, pc, loc, last,
                   revokedDone, chirps, probe, chirpyRed>>

CallCheckPasswordHash ==
    /\ call.fn = "HashPassword"
    /\ \E p \in CallPasswords :
         call' = [call EXCEPT !.fn = "CheckPasswordHash", !.password2 = p,
                              !.match = CheckPasswordHash(p, call.hash)]
    /\ UNCHANGED <<now, ticks, started, users, refreshTokens, pc, loc, last,
                   revokedDone, chirps, probe, chirpyRed>>

NextAuth ==
    \/ CallMakeJWT
    \/ CallValidateJWT
    \/ CallHashPassword
    \/ CallCheckPasswordHash

SpecAuth == Init /\ [][NextAuth]_vars

\* -------------------------------------------------------------------- Next
Next ==
    \/ Tick
    \/ \E w \in Workers : LoginUser(w)
    \/ \E w \in Workers : LoginUserCreate(w)
    \/ \E w \in Workers : RefreshTokenHandler(w)
    \/ \E w \in Workers : RefreshTokenHandlerCheck(w)
    \/ \E w \in Workers : RevokeRefreshToken(w)

Spec == Init /\ [][Next]_vars

\* The handlers that verify an access token, and registration.
NextApp ==
    \/ Tick
    \/ \E w \in Workers : RegisterUser(w)
    \/ \E w \in Workers : UpdateUser(w)
    \/ \E w \in Workers : UpdateUserGet(w)
    \/ \E w \in Workers : CreateChirp(w)
    \/ \E w \in Workers : DeleteChirpByID(w)
    \/ \E w \in Workers : DeleteChirpByIDRemove(w)

SpecApp == Init /\ [][NextApp]_vars

\* The webhook alone.
NextWebhook ==
    \/ Tick
    \/ \E w \in Workers : ChirpyRedWebhook(w)

SpecWebhook == Init /\ [][NextWebhook]_vars

\* Login, refresh and revocation, the clock moving on while a login stores
\* its row.
NextLogin ==
    \/ Tick
    \/ \E w \in Workers : LoginUser(w)
    \/ \E w \in Workers : LoginUserCreateSlow(w)
    \/ \E w \in Workers : RefreshTokenHandler(w)
    \/ \E w \in Workers : RefreshTokenHandlerCheck(w)
    \/ \E w \in Workers : RevokeRefreshToken(w)

SpecLogin == Init /\ [][NextLogin]_vars

\* A session: logins, refreshes, revocations and chirps sent one after
\* another, each once the one before has been answered; the chirps are ones
\* that are stored if the access token is accepted.
Client == 1

NextSession ==
    \/ Tick
    \/ LoginUser(Client)
    \/ LoginUserCreate(Client)
    \/ RefreshTokenHandler(Client)
    \/ RefreshTokenHandlerCheck(Client)
    \/ RevokeRefreshToken(Client)
    \/ CreateChirpStored(Client)

SpecSession == Init /\ [][NextSession]_vars

\* The chirp handlers alone.
NextChirps ==
    \/ Tick
    \/ \E w \in Workers : CreateChirp(w)
    \/ \E w \in Workers : DeleteChirpByID(w)
    \/ \E w \in Workers : DeleteChirpByIDRemove(w)

SpecChirps == Init /\ [][NextChirps]_vars

\* ============================================================ properties
\* The refresh-token states of the design: Active is created, not revoked and
\* not yet at its expires-at.
ActiveIn(table, t, clock) ==
    /\ t \in DOMAIN table
    /\ ~table[t].revoked.valid
    /\ clock < table[t].expires

\* A request refused as unauthorized, with no access token in the response.
Refused(r) ==
    /\ Len(r) = 1
    /\ r[1].code = StatusUnauthorized
    /\ r[1].token = NoJWT

\* C1: a Refresh(T) that starts after a Revoke(T) was answered 204 is refused
\* with 401 and carries no access token, whatever happened in between.
C1_RevokedThenRefreshRefused ==
    (last.kind = "refresh" /\ last.loc.token \in last.loc.seenRevoked)
        => (Refused(last.resp) /\ last.loc.access = NoJWT)

C1_Witness ==
    /\ last.kind = "refresh"
    /\ last.loc.token \in last.loc.seenRevoked
    /\ last.loc.cause = "revoked"
    /\ Refused(last.resp)

\* C2: a Refresh(T) made when the clock has passed T's expires-at is refused
\* with 401 and carries no access token (T revoked or not).
C2_ExpiredRefreshRefused ==
    (/\ last.kind = "refresh"
     /\ last.loc.token \in DOMAIN refreshTokens
     /\ refreshTokens[last.loc.token].expires < last.loc.at)
        => (Refused(last.resp) /\ last.loc.access = NoJWT)

C2_Witness ==
    /\ last.kind = "refresh"
    /\ last.loc.token \in DOMAIN refreshTokens
    /\ ~refreshTokens[last.loc.token].revoked.valid
    /\ refreshTokens[last.loc.token].expires < last.loc.at
    /\ last.loc.cause = "expired"
    /\ Refused(last.resp)

\* C3, as claimed: Refresh issues an access token only if the row it looked up
\* has revoked_at null and expires_at strictly greater than now.
C3_IssuesOnlyIfStrictlyUnexpired ==
    (last.kind = "refresh" /\ last.loc.cause = "ok")
        => (/\ ~last.loc.row.revoked.valid
            /\ last.loc.row.expires > last.loc.at)

\* C4: Expired and Revoked are terminal: a stored token that is not Active is
\* not Active after any step of Login, Refresh, Revoke or the clock.
C4_TerminalStates ==
    [][\A t \in DOMAIN refreshTokens :
          ~ActiveIn(refreshTokens, t, now) => ~ActiveIn(refreshTokens', t, now')]_vars

C4_Witness ==
    /\ last.kind = "refresh"
    /\ last.loc.cause \in {"expired", "revoked"}
    /\ last.loc.token \in DOMAIN refreshTokens
    /\ ~ActiveIn(refreshTokens, last.loc.token, now)

\* C5: revoke is monotonic: a revoked-at that is set keeps its value in every
\* step, a second Revoke of the same token included.
C5_RevokedAtNeverOverwritten ==
    [][\A t \in DOMAIN refreshTokens :
          refreshTokens[t].revoked.valid
              => (/\ t \in DOMAIN refreshTokens'
                  /\ refreshTokens'[t].revoked = refreshTokens[t].revoked)]_vars

\* A Revoke answered 204 at a time later than the revoked-at the row holds.
C5_Witness ==
    /\ last.kind = "revoke"
    /\ last.loc.cause = "ok"
    /\ last.loc.token \in DOMAIN refreshTokens
    /\ refreshTokens[last.loc.token].revoked.valid
    /\ refreshTokens[last.loc.token].revoked.time < last.loc.at

\* C6, as claimed: no Refresh issues an access token for T once a Revoke's
\* write of T's revoked_at has taken effect.
C6_NoIssueAfterRevokeWrite ==
    (last.kind = "refresh" /\ last.loc.cause = "ok") => ~last.loc.liveRevoked

\* An answered Refresh that failed because its token was not found, was
\* expired or was revoked.
RefreshFailedOnToken(r) ==
    /\ r.kind = "refresh"
    /\ r.loc.cause \in {"notfound", "expired", "revoked"}

\* C7, as claimed: two Refresh requests that fail for different causes among
\* not found, expired and revoked get identical responses.
C7_RefreshFailuresIdentical ==
    [][(RefreshFailedOnToken(last) /\ RefreshFailedOnToken(last'))
          => last'.resp = last.resp]_vars

\* C8: a Login refused for an unknown email and a Login refused for a wrong
\* password get the same response: 401 with the same message.
C8_LoginFailuresIdentical ==
    (last.kind = "login" /\ last.loc.cause \in {"noemail", "badpw"})
        => last.resp = <<respondWithError(StatusUnauthorized, "Incorrect email or password")>>

C8_Witness ==
    /\ last.kind = "login"
    /\ last.loc.cause = "badpw"
    /\ Refused(last.resp)

\* C9: a Login refused for its credentials leaves the refresh-token table as
\* it was.  (Such a Login starts and returns in one step.)
C9_FailedLoginLeavesTokens ==
    [][(/\ started' # started
        /\ pc' = pc
        /\ last'.kind = "login"
        /\ last'.loc.cause \in {"noemail", "badpw"})
          => refreshTokens' = refreshTokens]_vars

C9_Witness ==
    /\ last.kind = "login"
    /\ last.loc.cause = "badpw"
    /\ DOMAIN refreshTokens # {}

\* C10: when a Login succeeds for user u, the access token returned verifies
\* to u's ID and the refresh token returned is stored, owned by u, not revoked
\* and not expired.
C10_LoginIssuesActiveSession ==
    [][\A w \in Workers :
          (/\ pc[w] = "login_create"
           /\ pc'[w] = "idle"
           /\ last'.loc.cause = "ok")
          => LET r == last'.resp[1]
                 u == users[loc[w].email].id
             IN
             /\ Len(last'.resp) = 1
             /\ r.code = StatusOK
             /\ r.id = u
             /\ ValidateJWT(r.token, Secret, now') = [ok |-> TRUE, id |-> u]
             /\ ActiveIn(refreshTokens', r.refresh, now')
             /\ refreshTokens'[r.refresh].user = u]_vars

C10_Witness ==
    /\ last.kind = "login"
    /\ last.loc.cause = "ok"
    /\ last.resp[1].code = StatusOK
    /\ ActiveIn(refreshTokens, last.resp[1].refresh, now)

\* C11: Login is all-or-nothing: when storing the refresh token fails after the
\* password was accepted, the only response is a 500 that carries neither the
\* access token that was signed nor the refresh token that was drawn.
C11_LoginAllOrNothing ==
    (last.kind = "login" /\ last.loc.cause = "persist")
        => (/\ Len(last.resp) = 1
            /\ last.resp[1].code = StatusInternalServerError
            /\ last.resp[1].token = NoJWT
            /\ last.resp[1].refresh = EmptyString)

\* The insert failed although the token string was new to the table.
C11_Witness ==
    /\ last.kind = "login"
    /\ last.loc.cause = "persist"
    /\ last.loc.access # NoJWT
    /\ last.loc.refresh \in TokenStrings
    /\ last.loc.refresh \notin DOMAIN refreshTokens
    /\ last.resp[1].code = StatusInternalServerError

\* C12, as claimed: when HashPassword fails in RegisterUser or UpdateUser, the
\* step of the handler that follows the failure leaves the users table as it
\* was, and the request is answered with one 500 and nothing else.
C12_HashFailureNotSwallowed ==
    [][/\ (\E w \in Workers :
              pc[w] = "idle" /\ pc'[w] # "idle" /\ loc'[w].hashFailed)
          => users' = users
       /\ (last' # last /\ last'.kind \in {"register", "update"} /\ last'.loc.hashFailed)
          => (/\ pc' = pc => users' = users
              /\ Len(last'.resp) = 1
              /\ last'.resp[1].code = StatusInternalServerError)]_vars

\* C13: every access token a successful Refresh(T) returns verifies, with the
\* server's secret and at the time of the request, to the user that owns T's
\* row, the user whose Login stored T.
C13_RefreshSubjectIsOwner ==
    (last.kind = "refresh" /\ last.loc.cause = "ok")
        => (/\ Len(last.resp) = 1
            /\ last.loc.token \in DOMAIN refreshTokens
            /\ ValidateJWT(last.resp[1].token, Secret, last.loc.at)
                   = [ok |-> TRUE, id |-> refreshTokens[last.loc.token].user])

\* A Refresh answered 200 for a token of the second user.
C13_Witness ==
    /\ last.kind = "refresh"
    /\ last.loc.cause = "ok"
    /\ last.resp[1].code = StatusOK
    /\ refreshTokens[last.loc.token].user = U2
    /\ UUIDParse(last.resp[1].token.sub).id = U2

\* C14: no step of a Refresh, answered 200 or refused, changes the
\* refresh-token table: created-at, expires-at and revoked-at of every row stay
\* as they were, so an Active token stays usable for the next Refresh.
C14_RefreshLeavesTokens ==
    [][(\/ /\ started' # started
           /\ \/ pc' = pc /\ last'.kind = "refresh"
              \/ \E w \in Workers : pc[w] = "idle" /\ pc'[w] = "refresh_check"
        \/ \E w \in Workers : pc[w] = "refresh_check" /\ pc'[w] = "idle")
          => refreshTokens' = refreshTokens]_vars

\* A Refresh of T was answered 200, and the next Refresh of T has read T's row
\* as the first one read it.
C14_Witness ==
    /\ last.kind = "refresh"
    /\ last.loc.cause = "ok"
    /\ \E w \in Workers :
          /\ pc[w] = "refresh_check"
          /\ loc[w].token = last.loc.token
          /\ loc[w].row = last.loc.row
          /\ loc[w].row = refreshTokens[loc[w].token]
          /\ ActiveIn(refreshTokens, loc[w].token, now)

\* C15, as claimed: a Revoke whose bearer token matches no stored row is
\* answered as an invalid or unknown token (401 or 404), not as a success and
\* not as an internal error.
C15_UnknownRevokeIsInvalidToken ==
    (/\ last.kind = "revoke"
     /\ last.loc.token # EmptyString
     /\ last.loc.token \notin DOMAIN refreshTokens)
        => (/\ Len(last.resp) = 1
            /\ last.resp[1].code \in {StatusUnauthorized, StatusNotFound})

\* C16: a Revoke whose Authorization header is missing or does not start with
\* "Bearer " is answered 401 and nothing else (every response it writes is a
\* 401 error), and its step leaves the refresh-token table as it was.
C16_RevokeWithoutBearerWritesNothing ==
    [][(/\ started' # started
        /\ pc' = pc
        /\ last'.kind = "revoke"
        /\ last'.loc.cause = "header")
          => (/\ refreshTokens' = refreshTokens
              /\ Len(last'.resp) >= 1
              /\ \A i \in DOMAIN last'.resp :
                    /\ last'.resp[i].code = StatusUnauthorized
                    /\ last'.resp[i].token = NoJWT)]_vars

\* Such a Revoke was answered while the table held a row under the empty
\* string, not revoked: the row a write with the empty token would have hit.
C16_Witness ==
    /\ last.kind = "revoke"
    /\ last.loc.cause = "header"
    /\ last.resp[1] = respondWithError(StatusUnauthorized, "Missing Authorization header")
    /\ EmptyString \in DOMAIN refreshTokens
    /\ ~refreshTokens[EmptyString].revoked.valid

\* An answered CreateChirp, DeleteChirpByID or UpdateUser that failed at the
\* header or at the verification of the access token.
AuthorizeFailed(r) ==
    /\ r.kind \in {"create", "delete", "update"}
    /\ r.loc.cause \in {"header", "empty", "jwt"}

\* C17, as claimed: two requests to the same identity-gated handler, one
\* failing at header extraction and one at token verification, get identical
\* responses.
C17_AuthorizeFailuresIdentical ==
    [][(AuthorizeFailed(last) /\ AuthorizeFailed(last') /\ last'.kind = last.kind)
          => last'.resp = last.resp]_vars

\* C18: a chirp leaves the table only in the last step of a DeleteChirpByID
\* whose access token verifies to the chirp's user; a DeleteChirpByID whose
\* verified user is not the chirp's user is answered 403 and nothing else, and
\* its step leaves the chirp stored.
C18_DeleteOnlyByOwner ==
    [][/\ \A c \in DOMAIN chirps :
             c \notin DOMAIN chirps'
                 => \E w \in Workers :
                       /\ pc[w] = "delete_remove"
                       /\ pc'[w] = "idle"
                       /\ loc[w].chirp.id = c
                       /\ ValidateJWT(ParseJWT(loc[w].token), Secret, loc[w].at)
                              = [ok |-> TRUE, id |-> chirps[c].user]
       /\ (/\ started' # started
           /\ pc' = pc
           /\ last'.kind = "delete"
           /\ last'.loc.chirp # NoChirp
           /\ last'.loc.chirp.user # last'.loc.userID)
             => (/\ last'.resp = <<respondWithError(StatusForbidden, "User not authorized")>>
                 /\ chirps' = chirps
                 /\ last'.loc.chirp.id \in DOMAIN chirps')]_vars

\* The second user's valid token was used on the first user's chirp: 403, and
\* the chirp is stored.
C18_Witness ==
    /\ last.kind = "delete"
    /\ last.loc.cause = "forbidden"
    /\ last.loc.userID = U2
    /\ last.loc.chirp.id = Chirp0
    /\ last.resp[1].code = StatusForbidden
    /\ Chirp0 \in DOMAIN chirps
    /\ chirps[Chirp0].user = U1

\* A chirp was removed by its owner.
C18_OwnerDeletes ==
    /\ last.kind = "delete"
    /\ last.loc.cause = "ok"
    /\ last.loc.chirp.id \notin DOMAIN chirps

\* s starts with the characters of p, one by one.
StartsWith(s, p) == Len(s) >= Len(p) /\ \A i \in 1..Len(p) : s[i] = p[i]

\* C19: GetBearerToken succeeds exactly when the Authorization value starts
\* with "Bearer " (that case, with the space), and then returns what follows,
\* character for character, the empty string included; for any other value
\* (missing or empty, "bearer ", "Bearer" without the space, another scheme) it
\* fails with the empty token.
C19_GetBearerTokenExact ==
    probe.fn = "GetBearerToken"
        => IF StartsWith(probe.header, BearerPrefix)
           THEN probe.ok /\ BearerPrefix \o probe.out = probe.header
           ELSE ~probe.ok /\ probe.out = EmptyString

\* "Bearer  t": the token returned keeps its leading space.
C19_Witness ==
    /\ probe.fn = "GetBearerToken"
    /\ probe.header = BearerPrefix \o <<" ", "t">>
    /\ probe.ok
    /\ probe.out = <<" ", "t">>

\* C20: GetAPIKey succeeds exactly when the Authorization value starts with
\* "ApiKey " and then returns what follows, the empty string included; a
\* missing header, "Bearer ", "ApiKey" without the space and "apikey " fail
\* with the empty key.
C20_GetAPIKeyExact ==
    probe.fn = "GetAPIKey"
        => IF StartsWith(probe.header, ApiKeyPrefix)
           THEN probe.ok /\ ApiKeyPrefix \o probe.out = probe.header
           ELSE ~probe.ok /\ probe.out = EmptyString

\* "ApiKeyt", the scheme without the space, was refused.
C20_Witness ==
    /\ probe.fn = "GetAPIKey"
    /\ probe.header = <<"A", "p", "i", "K", "e", "y", "t">>
    /\ ~probe.ok
    /\ probe.out = EmptyString

\* C21: a token made for user u with secret s and a positive lifetime
\* validates under s and yields u, as long as the time is before the issue
\* time plus the lifetime, truncated to whole seconds (the expiry the token
\* carries).
C21_RoundTrip ==
    (/\ call.fn = "ValidateJWT"
     /\ call.secret2 = call.tokenSecret
     /\ call.expiresIn > 0
     /\ call.at < NewNumericDate(call.issued + call.expiresIn))
        => call.ok /\ call.id = call.userID

\* A token issued at half a second past, for a second and a half, is accepted
\* a second later.
C21_Witness ==
    /\ call.fn = "ValidateJWT"
    /\ call.tokenSecret = Secret /\ call.secret2 = Secret
    /\ call.issued = 1 /\ call.expiresIn = Second + 1 /\ call.at = 3
    /\ call.ok /\ call.id = call.userID

\* C21 as stated: valid as long as the time is before the issue time plus the
\* lifetime.
C21_Original ==
    (/\ call.fn = "ValidateJWT"
     /\ call.secret2 = call.tokenSecret
     /\ call.expiresIn > 0
     /\ call.at < call.issued + call.expiresIn)
        => call.ok /\ call.id = call.userID

\* C22: a token made with one secret never validates under a secret that
\* gives another HMAC key, the empty secret included: the call fails and
\* yields the nil user ID.  (Secrets that differ only in zero bytes at the
\* end give one key.)
C22_OtherKeyRejected ==
    (/\ call.fn = "ValidateJWT"
     /\ HMACKey(call.secret2) # HMACKey(call.tokenSecret))
        => ~call.ok /\ call.id = UUIDNil

\* An unexpired token of the server's secret is presented with the empty
\* secret and is rejected.
C22_Witness ==
    /\ call.fn = "ValidateJWT"
    /\ call.tokenSecret = Secret /\ call.secret2 = <<>>
    /\ call.at < call.token.exp
    /\ ~call.ok /\ call.id = UUIDNil

\* C22 as stated: no token validates under any secret other than its own.
C22_Original ==
    (/\ call.fn = "ValidateJWT"
     /\ call.secret2 # call.tokenSecret)
        => ~call.ok /\ call.id = UUIDNil

\* C23: ValidateJWT rejects every token whose expires-at is at or before the
\* time of the call, so a token made with a zero or negative lifetime never
\* validates; and a token rejected as expired is rejected whenever it is
\* presented again, under whatever secret.
C23_ExpiredRejected ==
    /\ [](call.fn = "ValidateJWT" =>
            /\ (call.token.exp <= call.at => ~call.ok /\ call.id = UUIDNil)
            /\ (call.expiresIn <= 0 => ~call.ok))
    /\ [][(call.fn = "ValidateJWT" /\ call.token.exp <= call.at
             /\ call'.fn = "ValidateJWT")
            => ~call'.ok /\ call'.id = UUIDNil]_vars

\* A token of positive lifetime is presented under its own secret at the very
\* instant of its expiry, and is rejected.
C23_Witness ==
    /\ call.fn = "ValidateJWT"
    /\ call.secret2 = call.tokenSecret
    /\ call.expiresIn > 0
    /\ call.at = call.token.exp
    /\ ~call.ok

\* C24: CheckPasswordHash(p1, HashPassword(p2)) is true exactly when p1 = p2:
\* passwords that differ only in case do not match, and the empty password
\* does not match the hash of a non-empty one.
C24_MatchIffSamePassword ==
    (call.fn = "CheckPasswordHash" /\ call.ok)
        => (call.match <=> call.password2 = call.password)

\* "pw" was hashed; "PW" is checked against the hash and does not match.
C24_Witness ==
    /\ call.fn = "CheckPasswordHash" /\ call.ok
    /\ call.password = "pw" /\ call.password2 = "PW"
    /\ ~call.match

\* "pw" was hashed, and "pw" matches the hash.
C24_SamePasswordMatches ==
    /\ call.fn = "CheckPasswordHash" /\ call.ok
    /\ call.password = "pw" /\ call.password2 = "pw"
    /\ call.match

\* C25: revoking a refresh token does not invalidate the access tokens
\* issued to its user by Login or Refresh: once a refresh token of the
\* user is revoked, a request carrying such an access token is still
\* authorized as that user while the time is before the access token's
\* expires-at, and is refused as unauthorized from then on.
C25_RevokeKeepsAccessTokens ==
    \A j \in {J1, J2} :
        LET token == IssuedJWTs[j]
            owner == UUIDParse(token.sub).id
        IN  (/\ last.kind = "create"
             /\ last.loc.token = j
             /\ \E r \in DOMAIN refreshTokens :
                    refreshTokens[r].revoked.valid /\ refreshTokens[r].user = owner)
                => IF last.loc.at < token.exp
                   THEN /\ last.loc.cause = "ok"
                        /\ last.resp = <<chirpResponse(StatusCreated, last.loc.chirp)>>
                        /\ last.loc.chirp.user = owner
                   ELSE last.resp = <<respondWithError(StatusUnauthorized, "User not authorized")>>

\* The first user logged in at time 0 (the access token of that login is
\* J1), the refresh token of that login was revoked, and a chirp sent with
\* J1 within the hour is stored.
C25_Witness ==
    /\ \E r \in revokedDone :
          /\ refreshTokens[r].revoked.valid
          /\ refreshTokens[r].user = U1
          /\ refreshTokens[r].created = 0
    /\ last.kind = "create"
    /\ last.loc.token = J1
    /\ last.loc.at < IssuedJWTs[J1].exp
    /\ last.loc.cause = "ok"

\* The same session an hour later: the access token has expired and the
\* chirp is refused.
C25_ExpiredAfterRevoke ==
    /\ \E r \in revokedDone : refreshTokens[r].user = U1 /\ refreshTokens[r].created = 0
    /\ last.kind = "create"
    /\ last.loc.token = J1
    /\ last.loc.at = IssuedJWTs[J1].exp
    /\ last.loc.cause = "jwt"

\* C26: every refresh-token record created by Login has expires-at equal to
\* its created-at plus exactly 60 days.
C26_ExpiresSixtyDaysAfterCreation ==
    \A t \in DOMAIN refreshTokens :
        refreshTokens[t].expires = refreshTokens[t].created + RefreshTTL

\* The rest of C26: a record is created with revoked-at null, and no later
\* step changes its expires-at or its owning user.
C26_RowsKeepExpiryAndOwner ==
    [][\A t \in DOMAIN refreshTokens' :
          IF t \in DOMAIN refreshTokens
          THEN /\ refreshTokens'[t].expires = refreshTokens[t].expires
               /\ refreshTokens'[t].user = refreshTokens[t].user
          ELSE refreshTokens'[t].revoked = NullTime]_vars

\* C27: when MakeRefreshToken fails (it returns the empty string and an
\* error), Login answers with the internal failure alone, and no record with
\* the empty token string is stored.
C27_TokenFailureReported ==
    /\ EmptyString \notin DOMAIN refreshTokens
    /\ (/\ last.kind = "login"
        /\ last.loc.cause \in {"ok", "persist"}
        /\ last.loc.refresh = EmptyString)
           => /\ Len(last.resp) = 1
              /\ last.resp[1].code = StatusInternalServerError
              /\ last.resp[1].token = NoJWT
              /\ last.resp[1].refresh = EmptyString

\* C28: ChirpyRedWebhook marks a user as Chirpy Red only when the
\* Authorization header carries an ApiKey equal to the configured POLKA_KEY
\* and the event is "user.upgraded"; any other request changes no user.
C28_UpgradeOnlyWithPolkaKey ==
    [][(chirpyRed' # chirpyRed \/ users' # users)
         => /\ last'.kind = "webhook"
            /\ last'.loc.token = PolkaKey
            /\ last'.loc.event = "user.upgraded"]_vars

\* C29: CreateChirp stores a chirp only for a request that carries a valid
\* access token, for the user who is the token's subject; a request that
\* fails authorization, whatever its body, stores no chirp and is answered
\* 401 Unauthorized.
C29_ChirpOnlyWithValidToken ==
    last.kind = "create" =>
        LET bearer == GetBearerToken(last.loc.header)
            valid  == ValidateJWT(ParseJWT(bearer.token), Secret, last.loc.at)
        IN  IF bearer.ok /\ valid.ok
            THEN last.loc.cause = "ok" => last.loc.chirp.user = valid.id
            ELSE /\ last.loc.chirp = NoChirp
                 /\ Len(last.resp) = 1
                 /\ last.resp[1].code = StatusUnauthorized

\* What of C29 the code keeps: a chirp is stored only by a request with a
\* valid access token, and for that token's subject.
C29_StoredOnlyForSubject ==
    [][chirps' # chirps /\ last'.kind = "create" =>
         LET bearer == GetBearerToken(last'.loc.header)
             valid  == ValidateJWT(ParseJWT(bearer.token), Secret, last'.loc.at)
         IN  /\ bearer.ok /\ valid.ok
             /\ \A c \in DOMAIN chirps' \ DOMAIN chirps : chirps'[c].user = valid.id]_vars

\* C30: every handler answers a request with exactly one response, and a
\* request whose response is an error response has performed no store
\* operation in the step that wrote it.
C30_ExactlyOneResponse ==
    [][last' # last =>
         /\ Len(last'.resp) = 1
         /\ last'.resp[1].code >= StatusBadRequest =>
                /\ users' = users
                /\ refreshTokens' = refreshTokens
                /\ chirps' = chirps
                /\ chirpyRed' = chirpyRed]_vars

====
